---- MODULE Spec2Model ----
(***************************************************************************)
(* A model of the weather service of src/main.go: the /weather handler,    *)
(* the cache-aside coordinate resolver (getLatLong, fetchLatLong,          *)
(* insertCity) and the forecast transformation (extractWeatherData).       *)
(*                                                                         *)
(* Strings that the code parses or formats are sequences of one-character  *)
(* strings.  A temperature is the decimal literal of the forecast body in  *)
(* hundredths of a degree (1845 is the literal 18.45); its float64 value   *)
(* is that literal together with the side on which the nearest float64     *)
(* lies.                                                                   *)
(***************************************************************************)
EXTENDS Integers, Sequences, FiniteSets, TLC

\* ------------------------------------------------------------------ bounds

\* Number of concurrent /weather requests.
NumReqs == 2
\* Longest hourly.time / hourly.temperature_2m array fed to the transformation.
MaxLen == 2

\* ----------------------------------------------------- strings and numbers

Digits == <<"0", "1", "2", "3", "4", "5", "6", "7", "8", "9">>

DigitSet == {Digits[i] : i \in 1..10}

\* time.isDigit(s, i), with i counted from 1
isDigit(s, i) == i <= Len(s) /\ s[i] \in DigitSet

DigitVal(c) == (CHOOSE i \in 1..10 : Digits[i] = c) - 1

Rest(s, k) == SubSeq(s, k + 1, Len(s))

\* strings.HasPrefix(s, <<c>>), as time.skip uses it for a literal layout byte
HasPrefix(s, c) == Len(s) >= 1 /\ s[1] = c

\* The decimal digits of a natural number, most significant first.
RECURSIVE Itoa(_)
Itoa(n) == IF n < 10 THEN <<Digits[n + 1]>> ELSE Itoa(n \div 10) \o <<Digits[(n % 10) + 1]>>

\* A number printed with two digits, zero padded (the "15" and "04" verbs of Format).
TwoDigits(n) == <<Digits[(n \div 10) + 1], Digits[(n % 10) + 1]>>

\* ------------------------------------------------------ time.Parse / Format

\* time.getnum: one or two leading digits; exactly two when fixed.
getnum(s, fixed) ==
    IF ~isDigit(s, 1) THEN [ok |-> FALSE, n |-> 0, rest |-> s]
    ELSE IF ~isDigit(s, 2)
         THEN IF fixed THEN [ok |-> FALSE, n |-> 0, rest |-> s]
              ELSE [ok |-> TRUE, n |-> DigitVal(s[1]), rest |-> Rest(s, 1)]
         ELSE [ok |-> TRUE, n |-> 10 * DigitVal(s[1]) + DigitVal(s[2]), rest |-> Rest(s, 2)]

isLeap(year) == year % 4 = 0 /\ (year % 100 # 0 \/ year % 400 = 0)

daysIn(month, year) ==
    IF month = 2 THEN (IF isLeap(year) THEN 29 ELSE 28)
    ELSE IF month \in {4, 6, 9, 11} THEN 30 ELSE 31

\* Days from 1970-01-01 to the given date of the proleptic Gregorian calendar.
DaysFromCivil(year, month, day) ==
    LET y   == IF month <= 2 THEN year - 1 ELSE year
        era == y \div 400
        yoe == y - era * 400
        mp  == IF month > 2 THEN month - 3 ELSE month + 9
        doy == (153 * mp + 2) \div 5 + day - 1
        doe == yoe * 365 + yoe \div 4 - yoe \div 100 + doy
    IN  era * 146097 + doe - 719468

ShortDayNames ==
    << <<"S", "u", "n">>, <<"M", "o", "n">>, <<"T", "u", "e">>, <<"W", "e", "d">>,
       <<"T", "h", "u">>, <<"F", "r", "i">>, <<"S", "a", "t">> >>

\* Time.Weekday: 0 is Sunday; 1970-01-01 was a Thursday.
Weekday(t) == (DaysFromCivil(t.year, t.month, t.day) + 4) % 7

BadTime == [ok |-> FALSE, year |-> 0, month |-> 0, day |-> 0, hour |-> 0, min |-> 0]

\* time.Parse("2006-01-02T15:04", value): four-digit year, "-", two-digit month,
\* "-", two-digit day, "T", one- or two-digit hour, ":", two-digit minute, no
\* text after it; month, hour and minute in range, the day valid for the month.
ParseTime(value) ==
    IF ~(Len(value) >= 4 /\ \A i \in 1..4 : isDigit(value, i)) THEN BadTime
    ELSE
    LET year == 1000 * DigitVal(value[1]) + 100 * DigitVal(value[2])
                + 10 * DigitVal(value[3]) + DigitVal(value[4])
        v1   == Rest(value, 4)
    IN  IF ~HasPrefix(v1, "-") THEN BadTime
    ELSE
    LET mo == getnum(Rest(v1, 1), TRUE)
    IN  IF ~mo.ok \/ mo.n <= 0 \/ 12 < mo.n THEN BadTime
    ELSE IF ~HasPrefix(mo.rest, "-") THEN BadTime
    ELSE
    LET da == getnum(Rest(mo.rest, 1), TRUE)
    IN  IF ~da.ok THEN BadTime
    ELSE IF ~HasPrefix(da.rest, "T") THEN BadTime
    ELSE
    LET ho == getnum(Rest(da.rest, 1), FALSE)
    IN  IF ~ho.ok \/ 24 <= ho.n THEN BadTime
    ELSE IF ~HasPrefix(ho.rest, ":") THEN BadTime
    ELSE
    LET mi == getnum(Rest(ho.rest, 1), TRUE)
    IN  IF ~mi.ok \/ 60 <= mi.n THEN BadTime
    ELSE IF Len(mi.rest) > 0 THEN BadTime
    ELSE IF da.n < 1 \/ da.n > daysIn(mo.n, year) THEN BadTime
    ELSE [ok |-> TRUE, year |-> year, month |-> mo.n, day |-> da.n,
          hour |-> ho.n, min |-> mi.n]

\* A mutant of FormatDate: the weekday table read one entry too far.
FormatDateShifted(t) ==
    ShortDayNames[((Weekday(t) + 1) % 7) + 1] \o <<" ">> \o TwoDigits(t.hour)
        \o <<":">> \o TwoDigits(t.min)

\* date.Format("Mon 15:04")
FormatDate(t) ==
    ShortDayNames[Weekday(t) + 1] \o <<" ">> \o TwoDigits(t.hour) \o <<":">> \o TwoDigits(t.min)

\* ---------------------------------------------------- float64 and "%.1f°C"

RECURSIVE Pow2Mod100(_)
Pow2Mod100(k) == IF k = 0 THEN 1 ELSE (2 * Pow2Mod100(k - 1)) % 100

RECURSIVE Pow2(_)
Pow2(k) == IF k = 0 THEN 1 ELSE 2 * Pow2(k - 1)

\* The binary exponent e of m/100 (m > 0): 2^e <= m/100 < 2^(e+1).
RECURSIVE ExpUp(_, _)
ExpUp(m, e) == IF 100 * Pow2(e + 1) <= m THEN ExpUp(m, e + 1) ELSE e

RECURSIVE ExpDown(_, _)
ExpDown(m, e) == IF m * Pow2(e) >= 100 THEN 0 - e ELSE ExpDown(m, e + 1)

BinaryExponent(m) == IF m >= 100 THEN ExpUp(m, 0) ELSE ExpDown(m, 1)

\* json.Unmarshal into a float64: the float64 nearest to the literal m/100 has a
\* 53-bit significand round(m * 2^k / 100) with k = 52 - e.  The remainder of
\* m * 2^k by 100 tells on which side of the literal it lies: -1 below, 0 equal,
\* 1 above (a remainder of exactly 50 cannot occur, 2^k being a multiple of 4).
Float64Side(m) ==
    IF m = 0 THEN 0
    ELSE LET r == ((m % 100) * Pow2Mod100(52 - BinaryExponent(m))) % 100
         IN  IF r = 0 THEN 0 ELSE IF r < 50 THEN 0 - 1 ELSE 1

Abs(n) == IF n < 0 THEN 0 - n ELSE n

\* The float64 of the literal n/100, rounded to tenths as "%.1f" rounds it: on the
\* exact binary value, to nearest, a tie (only an exactly representable value
\* can tie) to the even digit.
RoundTenths(n) ==
    LET m    == Abs(n)
        q    == m \div 10
        r    == m % 10
        side == Float64Side(m)
        up   == r > 5 \/ (r = 5 /\ (side > 0 \/ (side = 0 /\ q % 2 = 1)))
    IN  IF up THEN q + 1 ELSE q

\* A mutant of FormatTemperature: the literal rounded half up in decimal.
FormatTemperatureHalfUp(n) ==
    LET t == (Abs(n) + 5) \div 10
    IN  (IF n < 0 THEN <<"-">> ELSE <<>>) \o Itoa(t \div 10) \o <<".">>
            \o <<Digits[(t % 10) + 1]>> \o <<"°", "C">>

\* fmt.Sprintf("%.1f°C", temperature)
FormatTemperature(n) ==
    LET t == RoundTenths(n)
    IN  (IF n < 0 THEN <<"-">> ELSE <<>>) \o Itoa(t \div 10) \o <<".">>
            \o <<Digits[(t % 10) + 1]>> \o <<"°", "C">>

\* ------------------------------------------------------ extractWeatherData

\* A forecast body as json.Unmarshal sees it: whether it decodes into a
\* WeatherResponse, and the two hourly arrays it then holds.
BadJson == [json |-> FALSE, time |-> <<>>, temperature_2m |-> <<>>]

\* WeatherDisplay{}
EmptyDisplay == [City |-> "", Forecasts |-> <<>>]

\* A mutant of AppendForecast: the new entry is put in front.
PrependForecast(forecasts, forecast) == <<forecast>> \o forecasts

\* forecasts = append(forecasts, forecast), line 66
AppendForecast(forecasts, forecast) == Append(forecasts, forecast)

\* A mutant of TemperatureAt: every entry reads the first temperature.
TemperatureAtFirst(temps, i) == temps[1]

\* weatherResponse.Hourly.Temperature2m[i], line 64 (i counted from 1)
TemperatureAt(temps, i) == temps[i]

\* The range loop of lines 57-67 from index i on, forecasts being what the
\* earlier iterations appended.  An index past the end of Temperature2m is Go's
\* run-time panic "index out of range".
RECURSIVE rangeLoop(_, _, _, _, _)
rangeLoop(cityName, times, temps, i, forecasts) ==
    IF i > Len(times)
    THEN [outcome |-> "return", display |-> [City |-> cityName, Forecasts |-> forecasts],
          err |-> "nil"]
    ELSE LET date == ParseTime(times[i])
         IN  IF ~date.ok
             THEN [outcome |-> "return", display |-> EmptyDisplay, err |-> "parsing time"]
             ELSE IF i > Len(temps)
             THEN [outcome |-> "panic", display |-> EmptyDisplay,
                   err |-> "index out of range"]
             ELSE rangeLoop(cityName, times, temps, i + 1,
                            AppendForecast(forecasts,
                                [Date        |-> FormatDate(date),
                                 Temperature |-> FormatTemperature(TemperatureAt(temps, i))]))

\* extractWeatherData(city, rawWeather), lines 50-72
extractWeatherData(cityName, rawWeather) ==
    IF ~rawWeather.json
    THEN [outcome |-> "return", display |-> EmptyDisplay,
          err |-> "error decoding weather response"]
    ELSE rangeLoop(cityName, rawWeather.time, rawWeather.temperature_2m, 1, <<>>)

\* ------------------------------------------------------------ the service

VARIABLES
    store,          \* the rows of table cities, in insertion order
    uniqueIndex,    \* whether the table rejects a second row for a name
    pc,             \* where each request's handler stands
    city,           \* c.Query("city") of each request
    latLong,        \* getLatLong's local latLong
    latlong,        \* the handler's latlong, once getLatLong returned
    resolved,       \* "pending", then "ok" or the error getLatLong returned
    responses,      \* the responses written to each request, in order
    calls,          \* the store and external calls each request issued, in order
    getErr,         \* what db.Get returned to each request
    geoReply,       \* what the geocoder answered each request
    execResult,     \* what the table did with each request's INSERT: "none" yet,
                    \* "stored", "rejected", or "failed" (never executed)
    insertErr,      \* what insertCity returned to each request
    weatherReply,   \* what the forecast service answered each request
    weatherArg,     \* the LatLong each request passed to getWeather
    xpc, xcity, xbody, xout   \* extractWeatherData applied to one input

serviceVars == <<store, uniqueIndex, pc, city, latLong, latlong, resolved, responses,
                 calls, getErr, geoReply, execResult, insertErr, weatherReply,
                 weatherArg>>
xVars == <<xpc, xcity, xbody, xout>>
vars == <<serviceVars, xVars>>

Reqs == 1..NumReqs

Names == {"Paris", "Oslo"}

\* LatLong values, in units of 0.0001 degree.
ParisLatLong == [Latitude |-> 488566, Longitude |-> 23522]
OsloLatLong == [Latitude |-> 599139, Longitude |-> 107522]
Coords == {ParisLatLong, OsloLatLong}

\* A nil *LatLong.
Nil == [nil |-> TRUE]

\* ---- the store

Row(name, ll) == [name |-> name, lat |-> ll.Latitude, long |-> ll.Longitude]

\* The rows "SELECT lat, long FROM cities WHERE name = $1" matches, as LatLong.
SelectCity(db, name) ==
    {[Latitude |-> db[i].lat, Longitude |-> db[i].long] :
        i \in {j \in DOMAIN db : db[j].name = name}}

\* The error of sqlx when the destination takes one column and the result
\* has two.
ErrScannable == "scannable dest type ptr with >1 columns (2) in result"

\* What db.Get(&latLong, ...) returns, line 97.  latLong is a *LatLong, so the
\* destination is a **LatLong: sqlx takes a pointer to a non-struct for a
\* one-column destination and refuses the two-column result before it reads a
\* row, whether the name has a row or not; or the query itself fails.  db.Get
\* never returns nil and never sets latLong.
GetResults(db, name) ==
    {[err |-> ErrScannable, dest |-> Nil],
     [err |-> "driver: bad connection (SELECT)", dest |-> Nil]}

\* A mutant of insertCity: an upsert, the row of the name is overwritten.
insertCityUpsert(db, name, ll) ==
    IF \E i \in DOMAIN db : db[i].name = name
    THEN [i \in DOMAIN db |-> IF db[i].name = name THEN Row(name, ll) ELSE db[i]]
    ELSE Append(db, Row(name, ll))

\* insertCity, lines 131-134, when the INSERT succeeds: one new row.
insertCity(db, name, ll) == Append(db, Row(name, ll))

\* What the table does with the INSERT of line 132: it stores the row, unless
\* it rejects a second row for the name; or the statement never reaches it.
ExecOutcomes(db, unique, name) ==
    (IF unique /\ SelectCity(db, name) # {} THEN {"rejected"} ELSE {"stored"})
    \cup {"failed"}

\* What db.Exec then returns to the request: nil for a stored row, or an error
\* when the reply is lost after the row was stored; the table's error for a
\* rejected row; an error for a statement that never ran.  (A rejection whose
\* reply is lost leaves the table and the request as a statement that never ran.)
InsertResults(outcome) ==
    IF outcome = "stored" THEN {"nil", "driver: bad connection (INSERT)"}
    ELSE IF outcome = "rejected"
    THEN {"pq: duplicate key value violates unique constraint"}
    ELSE {"driver: bad connection (INSERT)"}

\* ---- the geocoder

\* The "results" lists the geocoder answers with: none, one, or two places.
ResultLists == {<<>>, <<ParisLatLong>>, <<OsloLatLong, ParisLatLong>>}

GeoReplies ==
    {[kind |-> "httpError", results |-> <<>>], [kind |-> "badJson", results |-> <<>>]}
    \cup {[kind |-> "json", results |-> rs] : rs \in ResultLists}

NoGeoReply == [kind |-> "none", results |-> <<>>]

\* A mutant of fetchLatLong: the last result is taken.
fetchLatLongLast(reply) ==
    IF reply.kind = "httpError"
    THEN [latLong |-> Nil, err |-> "error making request to Geo API"]
    ELSE IF reply.kind = "badJson"
    THEN [latLong |-> Nil, err |-> "error decoding response"]
    ELSE IF Len(reply.results) < 1
    THEN [latLong |-> Nil, err |-> "no results found"]
    ELSE [latLong |-> reply.results[Len(reply.results)], err |-> "nil"]

\* A mutant of fetchLatLong: an empty result list yields a zero coordinate.
fetchLatLongZero(reply) ==
    IF reply.kind = "httpError"
    THEN [latLong |-> Nil, err |-> "error making request to Geo API"]
    ELSE IF reply.kind = "badJson"
    THEN [latLong |-> Nil, err |-> "error decoding response"]
    ELSE IF Len(reply.results) < 1
    THEN [latLong |-> [Latitude |-> 0, Longitude |-> 0], err |-> "nil"]
    ELSE [latLong |-> reply.results[1], err |-> "nil"]

\* fetchLatLong, lines 74-93, given the geocoder's reply.
fetchLatLong(reply) ==
    IF reply.kind = "httpError"
    THEN [latLong |-> Nil, err |-> "error making request to Geo API"]
    ELSE IF reply.kind = "badJson"
    THEN [latLong |-> Nil, err |-> "error decoding response"]
    ELSE IF Len(reply.results) < 1
    THEN [latLong |-> Nil, err |-> "no results found"]
    ELSE [latLong |-> reply.results[1], err |-> "nil"]

\* ---- getLatLong, lines 95-113, between its calls.  Each step tells what
\* getLatLong does next (its next call, or "return"), the value its local latLong
\* then holds, and, when it returns, the pointer and the error it returns.

\* A mutant of afterGet: a driver error of the query is returned to the caller.
afterGetStrict(res) ==
    IF res.err = "nil"
    THEN [next |-> "return", local |-> res.dest, latLong |-> res.dest, err |-> "nil"]
    ELSE IF res.err = ErrScannable
    THEN [next |-> "fetchLatLong", local |-> Nil, latLong |-> Nil, err |-> "nil"]
    ELSE [next |-> "return", local |-> Nil, latLong |-> Nil, err |-> res.err]

\* Lines 97-102: return the row on err == nil, else go on to fetchLatLong.
afterGet(res) ==
    IF res.err = "nil"
    THEN [next |-> "return", local |-> res.dest, latLong |-> res.dest, err |-> "nil"]
    ELSE [next |-> "fetchLatLong", local |-> Nil, latLong |-> Nil, err |-> "nil"]

\* A mutant of afterFetch: the coordinate is returned without the write-back.
afterFetchNoInsert(f) ==
    IF f.err # "nil"
    THEN [next |-> "return", local |-> f.latLong, latLong |-> Nil, err |-> f.err]
    ELSE [next |-> "return", local |-> f.latLong, latLong |-> f.latLong, err |-> "nil"]

\* A mutant of afterFetch: before the write-back the request waits for a lock
\* on the name, which nothing grants.
afterFetchBlocked(f) ==
    IF f.err # "nil"
    THEN [next |-> "return", local |-> f.latLong, latLong |-> Nil, err |-> f.err]
    ELSE [next |-> "lock", local |-> f.latLong, latLong |-> Nil, err |-> "nil"]

\* Lines 102-107: return the error of fetchLatLong, else go on to insertCity.
afterFetch(f) ==
    IF f.err # "nil"
    THEN [next |-> "return", local |-> f.latLong, latLong |-> Nil, err |-> f.err]
    ELSE [next |-> "insertCity", local |-> f.latLong, latLong |-> Nil, err |-> "nil"]

\* A mutant of afterInsert: a failed write-back is ignored.
afterInsertLenient(ll, ierr) ==
    [next |-> "return", local |-> ll, latLong |-> ll, err |-> "nil"]

\* A mutant of afterInsert: a row rejected as a duplicate counts as written.
afterInsertIgnoreDuplicate(ll, ierr) ==
    IF ierr \notin {"nil", "pq: duplicate key value violates unique constraint"}
    THEN [next |-> "return", local |-> ll, latLong |-> Nil, err |-> ierr]
    ELSE [next |-> "return", local |-> ll, latLong |-> ll, err |-> "nil"]

\* Lines 107-112: return the error of insertCity, else the coordinate.
afterInsert(ll, ierr) ==
    IF ierr # "nil"
    THEN [next |-> "return", local |-> ll, latLong |-> Nil, err |-> ierr]
    ELSE [next |-> "return", local |-> ll, latLong |-> ll, err |-> "nil"]

\* ---- the forecast service and the handler's responses

T1 == <<"2", "0", "2", "4", "-", "0", "3", "-", "1", "1", "T", "1", "4", ":", "0", "0">>
T2 == <<"2", "0", "2", "4", "-", "0", "2", "-", "2", "9", "T", "0", "4", ":", "0", "5">>
T3 == <<"2", "0", "2", "3", "-", "1", "2", "-", "3", "1", "T", "4", ":", "5", "9">>
TNoT == <<"2", "0", "2", "4", "-", "0", "3", "-", "1", "1", " ", "1", "4", ":", "0", "0">>
TBadDay == <<"2", "0", "2", "3", "-", "0", "2", "-", "2", "9", "T", "0", "0", ":", "0", "0">>
TSeconds ==
    <<"2", "0", "2", "4", "-", "0", "3", "-", "1", "1", "T", "1", "4", ":", "0", "0", ":", "0", "0">>

ParisBody == [json |-> TRUE, time |-> <<T1>>, temperature_2m |-> <<1845>>]
BadTimeBody == [json |-> TRUE, time |-> <<T2, TNoT>>, temperature_2m |-> <<25, 75>>]
ShortBody == [json |-> TRUE, time |-> <<T1>>, temperature_2m |-> <<>>]

\* The forecast bodies the service answers the handler with: one that transforms,
\* one with an unparseable time, one with a short temperature array, one that
\* does not decode.
Bodies == {ParisBody, BadTimeBody, ShortBody, BadJson}

\* The outcomes of the forecast call: http.Get fails, io.ReadAll fails, or a
\* body is read.
WeatherReplies ==
    {[kind |-> "httpError", body |-> BadJson], [kind |-> "readError", body |-> BadJson]}
    \cup {[kind |-> "body", body |-> b] : b \in Bodies}

NoWeatherReply == [kind |-> "none", body |-> BadJson]

\* getWeather, lines 115-129, given the forecast service's reply.
getWeather(reply) ==
    IF reply.kind = "httpError"
    THEN [body |-> BadJson, err |-> "error making request to Weather API"]
    ELSE IF reply.kind = "readError"
    THEN [body |-> BadJson, err |-> "error reading response body"]
    ELSE [body |-> reply.body, err |-> "nil"]

\* c.JSON(http.StatusInternalServerError, gin.H{"error": err.Error()})
JSONError(e) == [status |-> 500, view |-> "json", error |-> e, data |-> EmptyDisplay]

\* c.HTML(http.StatusOK, "weather.html", weatherDisplay)
HTMLWeather(d) == [status |-> 200, view |-> "weather.html", error |-> "nil", data |-> d]

\* The Recovery middleware of gin.Default() answers a panicking handler with a
\* bare 500.
Recovered == [status |-> 500, view |-> "recovery", error |-> "nil", data |-> EmptyDisplay]

\* Lines 150-165: the handler once getWeather returned.
afterWeather(cityName, w) ==
    IF w.err # "nil" THEN JSONError(w.err)
    ELSE LET x == extractWeatherData(cityName, w.body)
         IN  IF x.outcome = "panic" THEN Recovered
             ELSE IF x.err # "nil" THEN JSONError(x.err)
             ELSE HTMLWeather(x.display)

\* A mutant of afterResolve: the forecast is looked up whatever getLatLong returned.
afterResolveAlways(ret) == [next |-> "getWeather", response |-> <<>>]

\* Lines 144-150: the handler once getLatLong returned.
afterResolve(ret) ==
    IF ret.err # "nil"
    THEN [next |-> "done", response |-> <<JSONError(ret.err)>>]
    ELSE [next |-> "getWeather", response |-> <<>>]

\* ---- the requests

NoOut == [outcome |-> "none", display |-> EmptyDisplay, err |-> "nil"]

Init ==
    /\ store = <<>>
    /\ uniqueIndex \in BOOLEAN
    /\ pc = [r \in Reqs |-> "idle"]
    /\ city = [r \in Reqs |-> ""]
    /\ latLong = [r \in Reqs |-> Nil]
    /\ latlong = [r \in Reqs |-> Nil]
    /\ resolved = [r \in Reqs |-> "pending"]
    /\ responses = [r \in Reqs |-> <<>>]
    /\ calls = [r \in Reqs |-> <<>>]
    /\ getErr = [r \in Reqs |-> "pending"]
    /\ geoReply = [r \in Reqs |-> NoGeoReply]
    /\ execResult = [r \in Reqs |-> "none"]
    /\ insertErr = [r \in Reqs |-> "pending"]
    /\ weatherReply = [r \in Reqs |-> NoWeatherReply]
    /\ weatherArg = [r \in Reqs |-> Nil]
    /\ xpc = "off"
    /\ xcity = ""
    /\ xbody = BadJson
    /\ xout = NoOut

\* getLatLong of request r goes on as st says: to its next call, or back to the
\* handler, which answers with the error or goes on to getWeather.
Step(r, st) ==
    /\ latLong' = [latLong EXCEPT ![r] = st.local]
    /\ IF st.next = "return"
       THEN LET h == afterResolve(st)
            IN  /\ latlong' = [latlong EXCEPT ![r] = st.latLong]
                /\ resolved' = [resolved EXCEPT ![r] = IF st.err = "nil" THEN "ok" ELSE st.err]
                /\ responses' = [responses EXCEPT ![r] = @ \o h.response]
                /\ pc' = [pc EXCEPT ![r] = h.next]
                /\ calls' = [calls EXCEPT ![r] =
                                IF h.next = "getWeather" THEN Append(@, "getWeather") ELSE @]
                /\ weatherArg' = [weatherArg EXCEPT ![r] =
                                IF h.next = "getWeather" THEN st.latLong ELSE @]
       ELSE /\ pc' = [pc EXCEPT ![r] = st.next]
            /\ calls' = [calls EXCEPT ![r] = Append(@, st.next)]
            /\ UNCHANGED <<latlong, resolved, responses, weatherArg>>

\* Line 143-144 and 97: a request arrives and getLatLong issues the query.
Request(r) ==
    /\ pc[r] = "idle"
    /\ \E name \in Names : city' = [city EXCEPT ![r] = name]
    /\ pc' = [pc EXCEPT ![r] = "db.Get"]
    /\ calls' = [calls EXCEPT ![r] = Append(@, "db.Get")]
    /\ UNCHANGED <<store, uniqueIndex, latLong, latlong, resolved, responses, getErr,
                   geoReply, execResult, insertErr, weatherReply, weatherArg, xVars>>

\* Lines 97-102: the query returns.
DbGetReturn(r) ==
    /\ pc[r] = "db.Get"
    /\ \E res \in GetResults(store, city[r]) :
          /\ getErr' = [getErr EXCEPT ![r] = res.err]
          /\ Step(r, afterGet(res))
    /\ UNCHANGED <<store, uniqueIndex, city, geoReply, execResult, insertErr, weatherReply,
                   xVars>>

\* Lines 102-107: the geocoder answers.
FetchLatLongReturn(r) ==
    /\ pc[r] = "fetchLatLong"
    /\ \E reply \in GeoReplies :
          /\ geoReply' = [geoReply EXCEPT ![r] = reply]
          /\ Step(r, afterFetch(fetchLatLong(reply)))
    /\ UNCHANGED <<store, uniqueIndex, city, getErr, execResult, insertErr, weatherReply,
                   xVars>>

\* Line 132, in the table: the INSERT the request has sent is executed, or is
\* lost on its way.  The request goes on waiting for the reply of db.Exec.
InsertCityExec(r) ==
    /\ pc[r] = "insertCity"
    /\ execResult[r] = "none"
    /\ \E outcome \in ExecOutcomes(store, uniqueIndex, city[r]) :
          /\ execResult' = [execResult EXCEPT ![r] = outcome]
          /\ store' = IF outcome = "stored"
                      THEN insertCity(store, city[r], latLong[r]) ELSE store
    /\ UNCHANGED <<uniqueIndex, pc, city, latLong, latlong, resolved, responses, calls,
                   getErr, geoReply, insertErr, weatherReply, weatherArg, xVars>>

\* Lines 107-112 and 132: db.Exec returns to the request.
InsertCityReturn(r) ==
    /\ pc[r] = "insertCity"
    /\ execResult[r] # "none"
    /\ \E ierr \in InsertResults(execResult[r]) :
          /\ insertErr' = [insertErr EXCEPT ![r] = ierr]
          /\ Step(r, afterInsert(latLong[r], ierr))
    /\ UNCHANGED <<store, uniqueIndex, city, getErr, geoReply, execResult, weatherReply,
                   xVars>>

\* Lines 150-165: the forecast service answers and the handler responds.
GetWeatherReturn(r) ==
    /\ pc[r] = "getWeather"
    /\ \E reply \in WeatherReplies :
          /\ weatherReply' = [weatherReply EXCEPT ![r] = reply]
          /\ responses' = [responses EXCEPT ![r] =
                              Append(@, afterWeather(city[r], getWeather(reply)))]
    /\ pc' = [pc EXCEPT ![r] = "done"]
    /\ UNCHANGED <<store, uniqueIndex, city, latLong, latlong, resolved, calls, getErr,
                   geoReply, execResult, insertErr, weatherArg, xVars>>

Next ==
    \E r \in Reqs :
        \/ Request(r)
        \/ DbGetReturn(r)
        \/ FetchLatLongReturn(r)
        \/ InsertCityExec(r)
        \/ InsertCityReturn(r)
        \/ GetWeatherReturn(r)

Spec == Init /\ [][Next]_vars

\* Lines 150-165 as they move the request: the forecast call returns and the
\* handler ends.  Of the steps of Next exactly those of GetWeatherReturn(r) take
\* pc[r] from "getWeather" to "done".
ForecastReturns(r) ==
    /\ pc[r] = "getWeather"
    /\ pc' = [pc EXCEPT ![r] = "done"]

\* Each call a request has outstanding returns in the end: the query, the
\* geocoder call, the INSERT and the forecast call are blocking calls of the
\* request's own goroutine (lines 97, 102, 107, 150).  Nothing makes a request
\* arrive.
CallsReturn ==
    \A r \in Reqs :
        /\ WF_vars(DbGetReturn(r))
        /\ WF_vars(FetchLatLongReturn(r))
        /\ WF_vars(InsertCityExec(r))
        /\ WF_vars(InsertCityReturn(r))
        /\ WF_pc(ForecastReturns(r))

SpecFair == Init /\ [][Next]_vars /\ CallsReturn

\* ---- the service connected to a table that earlier requests have written

\* The row an earlier request for "Paris" has left (line 139 connects to the
\* table as it is): it went through the miss path, returned the coordinate its
\* geocoder call gave it and inserted it.
EarlierRows == <<Row("Paris", ParisLatLong)>>

InitWarm ==
    /\ store = EarlierRows
    /\ uniqueIndex \in BOOLEAN
    /\ pc = [r \in Reqs |-> "idle"]
    /\ city = [r \in Reqs |-> ""]
    /\ latLong = [r \in Reqs |-> Nil]
    /\ latlong = [r \in Reqs |-> Nil]
    /\ resolved = [r \in Reqs |-> "pending"]
    /\ responses = [r \in Reqs |-> <<>>]
    /\ calls = [r \in Reqs |-> <<>>]
    /\ getErr = [r \in Reqs |-> "pending"]
    /\ geoReply = [r \in Reqs |-> NoGeoReply]
    /\ execResult = [r \in Reqs |-> "none"]
    /\ insertErr = [r \in Reqs |-> "pending"]
    /\ weatherReply = [r \in Reqs |-> NoWeatherReply]
    /\ weatherArg = [r \in Reqs |-> Nil]
    /\ xpc = "off"
    /\ xcity = ""
    /\ xbody = BadJson
    /\ xout = NoOut

SpecWarm == InitWarm /\ [][Next]_vars

\* ---- extractWeatherData on its own

TimeSamples == {T1, T2, T3, TNoT, TBadDay, TSeconds}

TempSamples == {1845, 1855, 25, 75, 0 - 4}

SeqsUpTo(S, n) == UNION {[1..k -> S] : k \in 0..n}

XBodies ==
    {BadJson}
    \cup {[json |-> TRUE, time |-> ts, temperature_2m |-> tp] :
            ts \in SeqsUpTo(TimeSamples, MaxLen), tp \in SeqsUpTo(TempSamples, MaxLen)}

InitExtract ==
    /\ store = <<>>
    /\ uniqueIndex = FALSE
    /\ pc = [r \in Reqs |-> "idle"]
    /\ city = [r \in Reqs |-> ""]
    /\ latLong = [r \in Reqs |-> Nil]
    /\ latlong = [r \in Reqs |-> Nil]
    /\ resolved = [r \in Reqs |-> "pending"]
    /\ responses = [r \in Reqs |-> <<>>]
    /\ calls = [r \in Reqs |-> <<>>]
    /\ getErr = [r \in Reqs |-> "pending"]
    /\ geoReply = [r \in Reqs |-> NoGeoReply]
    /\ execResult = [r \in Reqs |-> "none"]
    /\ insertErr = [r \in Reqs |-> "pending"]
    /\ weatherReply = [r \in Reqs |-> NoWeatherReply]
    /\ weatherArg = [r \in Reqs |-> Nil]
    /\ xpc = "input"
    /\ xcity \in Names
    /\ xbody \in XBodies
    /\ xout = NoOut

\* Line 160: weatherDisplay, err := extractWeatherData(city, weather)
Extract ==
    /\ xpc = "input"
    /\ xout' = extractWeatherData(xcity, xbody)
    /\ xpc' = "output"
    /\ UNCHANGED <<serviceVars, xcity, xbody>>

NextExtract == Extract

SpecExtract == InitExtract /\ [][NextExtract]_vars

\* ----------------------------------------------------------------- claims

Count(seq, x) == Cardinality({i \in DOMAIN seq : seq[i] = x})

\* The request's query has returned an error, so that no coordinate was read.
Missed(r) == getErr[r] \notin {"pending", "nil"}

\* The geocoder has answered the request with at least one result.
Geocoded(r) == geoReply[r].kind = "json" /\ Len(geoReply[r].results) >= 1

\* insertCity of the request has returned an error.
InsertFailed(r) == insertErr[r] \notin {"pending", "nil"}

\* C1: whenever the name is present in the store when the query
\* runs, getLatLong returns a coordinate stored for it, without a geocoder call
\* and without a store write.
C1_Original ==
    [][\A r \in Reqs :
          (pc[r] = "db.Get" /\ pc'[r] # "db.Get" /\ SelectCity(store, city[r]) # {}) =>
              /\ resolved'[r] = "ok"
              /\ latlong'[r] \in SelectCity(store, city[r])
              /\ Count(calls'[r], "fetchLatLong") = 0
              /\ store' = store]_vars

\* C2: a request whose lookup found no coordinate (as when the name is absent
\* from the store) has invoked the geocoder exactly once; and when the geocoder answered with at
\* least one result and the insert succeeded, getLatLong returned the first
\* result and the store holds the row {name, first result}.
C2_MissWriteBack ==
    \A r \in Reqs :
        Missed(r) =>
            /\ Count(calls[r], "fetchLatLong") = 1
            /\ (Geocoded(r) /\ insertErr[r] = "nil") =>
                   /\ resolved[r] = "ok"
                   /\ latlong[r] = geoReply[r].results[1]
                   /\ \E i \in DOMAIN store :
                          store[i] = [name |-> city[r],
                                      lat  |-> geoReply[r].results[1].Latitude,
                                      long |-> geoReply[r].results[1].Longitude]

\* C2 witness: the lookup of a name the store did not hold was answered with
\* two results and written back: the store holds the one row of the name.
C2_Witness ==
    \E r \in Reqs :
        /\ Missed(r)
        /\ Len(geoReply[r].results) = 2
        /\ insertErr[r] = "nil"
        /\ pc[r] = "done"
        /\ Count([i \in DOMAIN store |-> store[i].name], city[r]) = 1

\* C3: whenever the geocoder answers with zero results, getLatLong fails with
\* the "no results found" error, returns no coordinate, and no insert is issued
\* for the request, which ends there.
C3_EmptyGeocode ==
    \A r \in Reqs :
        (geoReply[r].kind = "json" /\ Len(geoReply[r].results) = 0) =>
            /\ resolved[r] = "no results found"
            /\ latlong[r] = Nil
            /\ Count(calls[r], "insertCity") = 0
            /\ insertErr[r] = "pending"
            /\ pc[r] = "done"

\* C3 witness: a request got an empty result list while the store was empty.
C3_Witness ==
    \E r \in Reqs :
        /\ geoReply[r].kind = "json"
        /\ Len(geoReply[r].results) = 0
        /\ store = <<>>

\* C4: whenever the geocoder gave a coordinate but the insert fails, getLatLong
\* returns the insert's error and no coordinate, the request ends with the
\* error response, and the forecast lookup is never invoked for it.
C4_WriteBackFatal ==
    \A r \in Reqs :
        InsertFailed(r) =>
            /\ resolved[r] = insertErr[r]
            /\ latlong[r] = Nil
            /\ pc[r] = "done"
            /\ responses[r] = <<JSONError(insertErr[r])>>
            /\ Count(calls[r], "getWeather") = 0
            /\ weatherReply[r] = NoWeatherReply

\* C4 witness: the insert failed for a request that holds a geocoded coordinate.
C4_Witness ==
    \E r \in Reqs :
        /\ InsertFailed(r)
        /\ Geocoded(r)
        /\ latLong[r] = geoReply[r].results[1]

\* C5: on any failure of the store query, a missing row or an error of the
\* store alike, getLatLong reports no store read error: its next call is the
\* geocoder, and once the geocoder gave a result, the write-back.
C5_ReadFailureIsMiss ==
    \A r \in Reqs :
        Missed(r) =>
            /\ Len(calls[r]) >= 2
            /\ calls[r][2] = "fetchLatLong"
            /\ resolved[r] # getErr[r]
            /\ \A i \in DOMAIN responses[r] : responses[r][i].error # getErr[r]
            /\ Geocoded(r) => (Len(calls[r]) >= 3 /\ calls[r][3] = "insertCity")

\* C5 witness: the query of a request failed with an error of the store, the
\* request went on to the geocoder and wrote a row back, and the store holds two
\* rows of its name.
C5_Witness ==
    \E r \in Reqs :
        /\ getErr[r] = "driver: bad connection (SELECT)"
        /\ insertErr[r] = "nil"
        /\ Cardinality({i \in DOMAIN store : store[i].name = city[r]}) = 2

\* C6: in every reachable state the store holds at most one row per name.
C6_UniqueNames ==
    \A i, j \in DOMAIN store : store[i].name = store[j].name => i = j

\* The request resolved its name, the forecast service delivered a body, and
\* the body transformed without error.
AllSucceeded(r) ==
    /\ resolved[r] = "ok"
    /\ weatherReply[r].kind = "body"
    /\ extractWeatherData(city[r], weatherReply[r].body).outcome = "return"
    /\ extractWeatherData(city[r], weatherReply[r].body).err = "nil"

\* C7: a finished request has exactly one response: the rendered weather view
\* (status 200, with the WeatherDisplay) if and only if getLatLong, getWeather
\* and extractWeatherData all succeeded, and otherwise a status 500 JSON
\* response that carries the error.
C7_OneResponse ==
    \A r \in Reqs :
        pc[r] = "done" =>
            /\ Len(responses[r]) = 1
            /\ AllSucceeded(r) <=>
                   (/\ responses[r][1].status = 200
                    /\ responses[r][1].view = "weather.html"
                    /\ responses[r][1].data.City = city[r])
            /\ ~AllSucceeded(r) =>
                   (/\ responses[r][1].status = 500
                    /\ responses[r][1].view = "json"
                    /\ responses[r][1].error # "nil")

\* The body decodes, its arrays have the same length, and every time parses.
WellFormed(body) ==
    /\ body.json
    /\ Len(body.time) = Len(body.temperature_2m)
    /\ \A i \in DOMAIN body.time : ParseTime(body.time[i]).ok

\* C8: for a well-formed body with N times and N temperatures, all times
\* parseable, extractWeatherData returns without error a WeatherDisplay of the
\* given city with exactly N forecasts, the i-th built from the i-th time and
\* the i-th temperature.
C8_ParallelArrays ==
    (xpc = "output" /\ WellFormed(xbody)) =>
        /\ xout.outcome = "return"
        /\ xout.err = "nil"
        /\ xout.display.City = xcity
        /\ Len(xout.display.Forecasts) = Len(xbody.time)
        /\ \A i \in DOMAIN xbody.time :
              xout.display.Forecasts[i] =
                  [Date        |-> FormatDate(ParseTime(xbody.time[i])),
                   Temperature |-> FormatTemperature(xbody.temperature_2m[i])]

\* C8 witness: a well-formed body of two different times and two different
\* temperatures has been transformed.
C8_Witness ==
    /\ xpc = "output"
    /\ WellFormed(xbody)
    /\ Len(xbody.time) = 2
    /\ xbody.time[1] # xbody.time[2]
    /\ xbody.temperature_2m[1] # xbody.temperature_2m[2]
    /\ xout.display.Forecasts[1] # xout.display.Forecasts[2]

\* C9: when the temperature array is shorter than the time array,
\* extractWeatherData returns the malformed-response error as an error value and
\* never indexes the temperature array out of range.
C9_ShortArrayRejected ==
    (xpc = "output" /\ xbody.json /\ Len(xbody.temperature_2m) < Len(xbody.time)) =>
        /\ xout.outcome = "return"
        /\ xout.err = "error decoding weather response"

\* C10: if any entry of the time array fails to parse, at whatever index,
\* extractWeatherData fails as a whole with the time-parse error and returns the
\* empty WeatherDisplay.
C10_NoPartialSuccess ==
    (xpc = "output" /\ xbody.json
        /\ \E i \in DOMAIN xbody.time : ~ParseTime(xbody.time[i]).ok) =>
        /\ xout.outcome = "return"
        /\ xout.err = "parsing time"
        /\ xout.display = EmptyDisplay

\* The label "Mon 14:00" and the temperature labels "18.4°C" and "18.5°C".
LabelMon1400 == <<"M", "o", "n", " ", "1", "4", ":", "0", "0">>
Label184 == <<"1", "8", ".", "4", "°", "C">>
Label185 == <<"1", "8", ".", "5", "°", "C">>

\* The request ran the end-to-end scenario: "Paris" was not in the store, the
\* geocoder answered with the one result (48.8566, 2.3522), the row was written,
\* and the forecast body holds the time 2024-03-11T14:00 and the temperature 18.45.
ParisScenario(r) ==
    /\ pc[r] = "done"
    /\ city[r] = "Paris"
    /\ Missed(r)
    /\ geoReply[r] = [kind |-> "json", results |-> <<ParisLatLong>>]
    /\ insertErr[r] = "nil"
    /\ weatherReply[r] = [kind |-> "body", body |-> ParisBody]

\* C11, as amended: the end-to-end scenario ends with the one response
\* 200 weather.html {city: "Paris", forecasts: [{"Mon 14:00", "18.4°C"}]}, the
\* forecast having been asked for (48.8566, 2.3522), and the store holds a
\* Paris row with coordinates (48.8566, 2.3522).
C11_EndToEnd ==
    \A r \in Reqs :
        ParisScenario(r) =>
            /\ responses[r] =
                  << [status |-> 200, view |-> "weather.html", error |-> "nil",
                      data |-> [City |-> "Paris",
                                Forecasts |-> <<[Date |-> LabelMon1400,
                                                 Temperature |-> Label184]>>]] >>
            /\ weatherArg[r] = [Latitude |-> 488566, Longitude |-> 23522]
            /\ \E i \in DOMAIN store :
                  store[i] = [name |-> "Paris", lat |-> 488566, long |-> 23522]

\* C11 witness: a request ran the scenario on a store that holds nothing but
\* its Paris row.
C11_Witness ==
    \E r \in Reqs : ParisScenario(r) /\ Len(store) = 1

\* C11, as stated: the scenario ends with the success view
\* {city: "Paris", forecasts: [{"Mon 14:00", "18.5°C"}]} and the Paris row.
C11_Original ==
    \A r \in Reqs :
        ParisScenario(r) =>
            /\ responses[r] =
                  << [status |-> 200, view |-> "weather.html", error |-> "nil",
                      data |-> [City |-> "Paris",
                                Forecasts |-> <<[Date |-> LabelMon1400,
                                                 Temperature |-> Label185]>>]] >>
            /\ \E i \in DOMAIN store :
                  store[i] = [name |-> "Paris", lat |-> 488566, long |-> 23522]

\* The number a run of decimal digits writes.
RECURSIVE DecimalValue(_)
DecimalValue(ds) ==
    IF ds = <<>> THEN 0
    ELSE 10 * DecimalValue(SubSeq(ds, 1, Len(ds) - 1)) + DigitVal(ds[Len(ds)])

\* The label is a number with one decimal place followed by "°C", and that
\* number is within half a tenth of the temperature n/100, with its sign.
OneDecimalLabel(label, n) ==
    LET neg  == label # <<>> /\ label[1] = "-"
        body == IF neg THEN Rest(label, 1) ELSE label
        k    == Len(body)
    IN  /\ k >= 5
        /\ body[k] = "C" /\ body[k - 1] = "°" /\ body[k - 3] = "."
        /\ isDigit(body, k - 2)
        /\ \A j \in 1..(k - 4) : isDigit(body, j)
        /\ neg <=> (n < 0)
        /\ LET t == 10 * DecimalValue(SubSeq(body, 1, k - 4)) + DigitVal(body[k - 2])
           IN  Abs(10 * t - Abs(n)) <= 5

\* extractWeatherData has returned forecasts for the whole of its input.
Transformed == xpc = "output" /\ xout.outcome = "return" /\ xout.err = "nil"

\* C12, as amended: extractWeatherData formats the time "2024-03-11T14:00" as
\* "Mon 14:00" and the temperature 18.45 as "18.4°C"; every temperature label is
\* the float64 of the temperature rounded to one decimal place, followed by "°C".
C12_Formatting ==
    Transformed =>
        \A i \in DOMAIN xout.display.Forecasts :
            /\ xbody.time[i] = T1 => xout.display.Forecasts[i].Date = LabelMon1400
            /\ xbody.temperature_2m[i] = 1845 =>
                  xout.display.Forecasts[i].Temperature = Label184
            /\ OneDecimalLabel(xout.display.Forecasts[i].Temperature,
                               xbody.temperature_2m[i])

\* C12 witness: the time 2024-03-11T14:00 and the temperature 18.45 have been
\* transformed together.
C12_Witness ==
    /\ Transformed
    /\ \E i \in DOMAIN xout.display.Forecasts :
          xbody.time[i] = T1 /\ xbody.temperature_2m[i] = 1845

\* C12, as stated: extractWeatherData formats the time "2024-03-11T14:00" as
\* "Mon 14:00" and the temperature 18.45 as "18.5°C".
C12_Original ==
    Transformed =>
        \A i \in DOMAIN xout.display.Forecasts :
            /\ xbody.time[i] = T1 => xout.display.Forecasts[i].Date = LabelMon1400
            /\ xbody.temperature_2m[i] = 1845 =>
                  xout.display.Forecasts[i].Temperature = Label185

\* Requests r1 and r2 ask for the same name and the lookup of neither gave a
\* coordinate.
BothMissed(r1, r2) ==
    /\ r1 # r2
    /\ city[r1] = city[r2]
    /\ Missed(r1)
    /\ Missed(r2)

\* C13: nothing de-duplicates two requests for the same uncached name: whenever
\* both have missed and the geocoder has answered both with a result, each of
\* them has made its own geocoder call and has issued its own insert.
C13_DuplicateWork ==
    \A r1, r2 \in Reqs :
        (BothMissed(r1, r2) /\ Geocoded(r1) /\ Geocoded(r2)) =>
            \A r \in {r1, r2} :
                /\ Count(calls[r], "fetchLatLong") = 1
                /\ Count(calls[r], "insertCity") = 1

\* C13 witness: the interleaving of the claim: two requests for the same name
\* have both missed, both have a geocoder result, and both inserts are
\* outstanding at once on a store that has no row for the name.
C13_Witness ==
    \E r1, r2 \in Reqs :
        /\ BothMissed(r1, r2)
        /\ Geocoded(r1) /\ Geocoded(r2)
        /\ pc[r1] = "insertCity" /\ pc[r2] = "insertCity"
        /\ execResult[r1] = "none" /\ execResult[r2] = "none"
        /\ SelectCity(store, city[r1]) = {}

\* The request has invoked the forecast lookup.
ForecastInvoked(r) == Count(calls[r], "getWeather") >= 1

\* C14: within one request the forecast lookup is invoked only after getLatLong
\* has returned successfully, and with the coordinate it returned: never while
\* the query, the geocoder call or the insert of that request is outstanding,
\* and never after getLatLong has failed.
C14_ForecastAfterResolve ==
    \A r \in Reqs :
        /\ ForecastInvoked(r) =>
              /\ resolved[r] = "ok"
              /\ latlong[r] \in Coords
              /\ weatherArg[r] = latlong[r]
              /\ getErr[r] = "nil" \/ (Geocoded(r) /\ latlong[r] = geoReply[r].results[1])
              /\ calls[r][Len(calls[r])] = "getWeather"
              /\ pc[r] \in {"getWeather", "done"}
        /\ pc[r] \in {"db.Get", "fetchLatLong", "insertCity"} =>
              ~ForecastInvoked(r) /\ resolved[r] = "pending"
        /\ resolved[r] # "ok" =>
              /\ ~ForecastInvoked(r)
              /\ weatherArg[r] = Nil
              /\ weatherReply[r] = NoWeatherReply

\* C14 witness: one request's forecast lookup is outstanding for the coordinate
\* its geocoder call returned and its insert stored, while another request's
\* getLatLong has failed.
C14_Witness ==
    \E r1, r2 \in Reqs :
        /\ pc[r1] = "getWeather"
        /\ insertErr[r1] = "nil"
        /\ weatherArg[r1] = ParisLatLong
        /\ resolved[r2] \notin {"pending", "ok"}
        /\ pc[r2] = "done"

\* C15: the store only grows: every step leaves the rows it holds as they are,
\* and the only step that changes the store adds one row, for a request that
\* missed, obtained a geocoder result and whose INSERT the table executes, with
\* that request's name and that result.
C15_StoreOnlyGrows ==
    [][ store' # store =>
          \E r \in Reqs :
              /\ pc[r] = "insertCity"
              /\ Missed(r)
              /\ Geocoded(r)
              /\ execResult[r] = "none"
              /\ execResult'[r] = "stored"
              /\ store' = Append(store, [name |-> city[r],
                                         lat  |-> geoReply[r].results[1].Latitude,
                                         long |-> geoReply[r].results[1].Longitude])
      ]_vars

\* C15 witness: the store has grown twice, to two different rows of one name.
C15_Witness ==
    /\ Len(store) = 2
    /\ store[1].name = store[2].name
    /\ store[1] # store[2]
    /\ \A r \in Reqs : pc[r] = "done"

\* The geocoder call of the request has failed: no reply, an undecodable
\* reply, or a reply without results.
GeocodeFailed(r) == geoReply[r] # NoGeoReply /\ ~Geocoded(r)

\* The forecast call of the request has failed.
ForecastFailed(r) == weatherReply[r].kind \in {"httpError", "readError"}

\* The sequence s begins the sequence t.
IsPrefix(s, t) == Len(s) <= Len(t) /\ s = SubSeq(t, 1, Len(s))

\* Each kind of call is made at most once by the request.
AtMostOnce(r) ==
    \A c \in {"db.Get", "fetchLatLong", "insertCity", "getWeather"} :
        Count(calls[r], c) <= 1

\* C16, as amended: no retries: a request makes at most one store lookup, one
\* geocoder call, one insert and one forecast call, in that order; a failed
\* store lookup is taken as a miss and is followed by the geocoder call, and
\* after the geocoder call, the insert or the forecast call has failed the
\* request makes no further store or external call.
C16_NoRetries ==
    \A r \in Reqs :
        /\ AtMostOnce(r)
        /\ \/ IsPrefix(calls[r], <<"db.Get", "fetchLatLong", "insertCity", "getWeather">>)
           \/ IsPrefix(calls[r], <<"db.Get", "getWeather">>)
        /\ (Missed(r) /\ Len(calls[r]) >= 2) => calls[r][2] = "fetchLatLong"
        /\ GeocodeFailed(r) =>
              pc[r] = "done" /\ calls[r] = <<"db.Get", "fetchLatLong">>
        /\ InsertFailed(r) =>
              pc[r] = "done" /\ calls[r] = <<"db.Get", "fetchLatLong", "insertCity">>
        /\ ForecastFailed(r) =>
              pc[r] = "done" /\ calls[r][Len(calls[r])] = "getWeather"

\* C16 witness: one request's lookup failed in the store itself and its geocoder
\* call then failed; another request's insert failed.
C16_Witness ==
    \E r1, r2 \in Reqs :
        /\ getErr[r1] = "driver: bad connection (SELECT)"
        /\ GeocodeFailed(r1)
        /\ pc[r1] = "done"
        /\ InsertFailed(r2)
        /\ pc[r2] = "done"

\* C16, as stated: a request makes each call at most once, and after any of
\* them has failed, the store lookup included, it makes no further call.
C16_Original ==
    \A r \in Reqs :
        /\ AtMostOnce(r)
        /\ getErr[r] = "driver: bad connection (SELECT)" => calls[r] = <<"db.Get">>
        /\ GeocodeFailed(r) => calls[r] = <<"db.Get", "fetchLatLong">>
        /\ InsertFailed(r) => calls[r] = <<"db.Get", "fetchLatLong", "insertCity">>
        /\ ForecastFailed(r) => calls[r][Len(calls[r])] = "getWeather"

\* The coordinate the earlier resolution of "Paris" returned, through the miss
\* path, before any of the present requests started.
EarlierResolved == [Latitude |-> EarlierRows[1].lat, Longitude |-> EarlierRows[1].long]

\* The store has answered the request's query: the query did not fail in the
\* store.
StoreAnswered(r) == getErr[r] \notin {"pending", "driver: bad connection (SELECT)"}

\* C17: once a resolution of a name has succeeded through the miss path, every
\* later resolution of the name, the store answering its read, returns the same
\* coordinate, makes no geocoder call and adds no row.
C17_RepeatFromCache ==
    \A r \in Reqs :
        (city[r] = "Paris" /\ StoreAnswered(r)) =>
            /\ Count(calls[r], "fetchLatLong") = 0
            /\ Count(calls[r], "insertCity") = 0
            /\ execResult[r] = "none"
            /\ resolved[r] = "ok"
            /\ latlong[r] = EarlierResolved

\* The store has rejected the request's insert because the name has a row.
Rejected(r) == insertErr[r] = "pq: duplicate key value violates unique constraint"

\* C18: on a store that rejects an insert for a name that already has a row, a
\* request that missed, obtained a geocoder result and had its insert rejected
\* ends with the error response and without a forecast lookup, although it holds
\* the geocoder's coordinate; the store holds exactly one row for the name,
\* which another request that missed as well has written; and every request
\* whose insert returned without error has gone on to the forecast lookup.
C18_RaceLoserFails ==
    uniqueIndex =>
        /\ \A r \in Reqs :
              Rejected(r) =>
                  /\ Missed(r)
                  /\ Geocoded(r)
                  /\ latLong[r] = geoReply[r].results[1]
                  /\ latLong[r] \in Coords
                  /\ latlong[r] = Nil
                  /\ pc[r] = "done"
                  /\ responses[r] =
                        << [status |-> 500, view |-> "json",
                            error |-> "pq: duplicate key value violates unique constraint",
                            data |-> EmptyDisplay] >>
                  /\ ~ForecastInvoked(r)
                  /\ Count([i \in DOMAIN store |-> store[i].name], city[r]) = 1
                  /\ \E w \in Reqs \ {r} :
                        /\ city[w] = city[r]
                        /\ Missed(w)
                        /\ Geocoded(w)
                        /\ execResult[w] = "stored"
        /\ \A w \in Reqs :
              insertErr[w] = "nil" =>
                  /\ execResult[w] = "stored"
                  /\ resolved[w] = "ok"
                  /\ ForecastInvoked(w)

\* C18 witness: two requests for one name both missed and both obtained a
\* geocoder result; the insert of one was rejected and it has ended, the other
\* has inserted and its forecast lookup is outstanding.
C18_Witness ==
    /\ uniqueIndex
    /\ \E r1, r2 \in Reqs :
          /\ BothMissed(r1, r2)
          /\ Geocoded(r1) /\ Geocoded(r2)
          /\ Rejected(r1)
          /\ pc[r1] = "done"
          /\ insertErr[r2] = "nil"
          /\ pc[r2] = "getWeather"

\* The return of the call the request has outstanding.
OwnReturn(r) ==
    \/ DbGetReturn(r)
    \/ FetchLatLongReturn(r)
    \/ InsertCityExec(r)
    \/ InsertCityReturn(r)
    \/ ForecastReturns(r)

\* C19: provided each store operation and each external call returns in the
\* end, every request that has arrived reaches its final response, whatever the
\* interleaving; and no request waits on another: while a request has not
\* ended, the return of its outstanding call can happen, whatever the state of
\* the other requests.
C19_Termination ==
    /\ \A r \in Reqs :
          (pc[r] # "idle") ~> (pc[r] = "done" /\ Len(responses[r]) = 1)
    /\ [](\A r \in Reqs : pc[r] \notin {"idle", "done"} => ENABLED OwnReturn(r))

\* C19 witness: all requests have ended with a response, one of them after a
\* write-back on the miss path and one with an error.
C19_Witness ==
    /\ \A r \in Reqs : pc[r] = "done" /\ Len(responses[r]) = 1
    /\ \E r \in Reqs : insertErr[r] = "nil" /\ responses[r][1].status = 200
    /\ \E r \in Reqs : responses[r][1].status = 500

====
